---------------------------- MODULE Spec2Model ----------------------------
(***************************************************************************)
(* A model of the pcap-analyzer: the probe orchestrator (PcapAnalyzer),    *)
(* its text parsers, its reclaimer (dropFile), the rule-corpus filter      *)
(* (generateCustomRules) and the upload handler of the server.             *)
(*                                                                         *)
(* Strings are sequences of one-character strings.  A promise is a state   *)
(* "pending" | "fulfilled" | "rejected".  A nullable value is a set with    *)
(* at most one element: {} is null, {v} is the value v.                    *)
(***************************************************************************)
EXTENDS Integers, Sequences, FiniteSets, TLC

VARIABLES
    \* ---- PcapAnalyzer instance (src/class/PCAPAnalyzer.ts)
    promise,        \* probe -> state of the promise the probe's async method returned
    values,         \* fulfilled probe -> the value its promise was fulfilled with
    toolFailed,     \* probes one of whose external-tool invocations has failed
    suriPc,         \* getSuricataAnalysis: the await it is suspended at
    suriLogs,       \* getSuricataAnalysis: the log constants read so far (eve, fast, ...)
    tcpLines,       \* getTcpStreams: lines.length, -1 before the listing returned
    streams,        \* getTcpStreams: the streams array
    initPc,         \* initialize: "await" | "done" | "caught"
    result,         \* this.result, {} while null
    pc,             \* getResult caller -> "idle" | "sleep" | "returned"
    timers,         \* parity of the number of timers the getResult loops have created
    got,            \* getResult caller -> what its last call returned, {} before
    \* ---- getProtocolHierarchy
    protoOutput,    \* the lines of tshark's io,phs report
    protoPc,
    protoTree,      \* node -> its children array; node 0 is root
    \* ---- generateCustomRules
    allRules,       \* contents of rules/all.rules
    selectedIds,
    customRules,    \* contents of rules/custom.rules, {} while unwritten
    filteredBlocks, \* the filteredBlocks array of the last run
    firstBlocks,    \* the filteredBlocks array of the run before it
    rulesPc,        \* "start" | "filtered" | "installed" | "refiltered"
    \* ---- getCapinfos
    capinfosOutput,
    capPc,
    parsedResult,
    \* ---- getMacAddresses
    macOutput,
    macPc,
    macAddresses,
    \* ---- getIpHostPairs
    ipHostOutput,
    ipPc,
    ipHostPairs,
    \* ---- the working directory of the server
    captureFile,    \* tmp/uploaded.pcap: {} while absent, else {r}, the upload of request r
    scratchLogs,    \* tmp/suricata_logs/*: {} while empty, else {r}, logs about r's upload
    \* ---- dropFile
    dropPc,         \* dropFile: "idle" | "rmPcap" | "rmLogs" | "returned" | "raised"
    \* ---- Bun.serve fetch (src/index.ts)
    reqPc,          \* request -> the await its handler is suspended at
    analyzers       \* request -> the PcapAnalyzer its handler constructed

orchVars  == <<promise, values, toolFailed, suriPc, suriLogs, tcpLines, streams,
               initPc, result, pc, timers, got>>
protoVars == <<protoOutput, protoPc, protoTree>>
rulesVars == <<allRules, selectedIds, customRules, filteredBlocks, firstBlocks, rulesPc>>
capVars   == <<capinfosOutput, capPc, parsedResult>>
macVars   == <<macOutput, macPc, macAddresses>>
ipVars    == <<ipHostOutput, ipPc, ipHostPairs>>
fileVars  == <<captureFile, scratchLogs>>
dropVars  == <<dropPc>>
serveVars == <<reqPc, analyzers>>
vars      == <<orchVars, protoVars, rulesVars, capVars, macVars, ipVars,
               fileVars, dropVars, serveVars>>

-----------------------------------------------------------------------------
(* Bounds of the model.                                                    *)

NumCallers == 2         \* concurrent getResult callers
MaxStreams == 2         \* conversations tshark lists
MaxProtoLines == 4      \* lines of the protocol-hierarchy report
MaxIndent == 2          \* widest indentation of a report line
MaxRuleLines == 4       \* lines of rules/all.rules
MaxCapLen == 5          \* characters of capinfos output
MaxMacLines == 2        \* lines of the MAC listing
MaxHostLines == 2       \* lines of the host-pair listing
NumRequests == 2        \* POST requests the server handles at once

-----------------------------------------------------------------------------
(* JavaScript strings and arrays.                                          *)

Null == {}
Some(v) == {v}
TheValue(o) == CHOOSE v \in o : TRUE

WhiteSpace == {" ", "\t", "\n"}

RECURSIVE TrimStart(_)
TrimStart(s) ==
    IF s # <<>> /\ Head(s) \in WhiteSpace THEN TrimStart(Tail(s)) ELSE s

RECURSIVE TrimEnd(_)
TrimEnd(s) ==
    IF s # <<>> /\ s[Len(s)] \in WhiteSpace
    THEN TrimEnd(SubSeq(s, 1, Len(s) - 1))
    ELSE s

\* String.prototype.trim
Trim(s) == TrimEnd(TrimStart(s))

\* String.prototype.indexOf for a one-character needle, 1-based, 0 when absent
IndexOf(s, ch) ==
    IF \E i \in 1..Len(s) : s[i] = ch
    THEN CHOOSE i \in 1..Len(s) : s[i] = ch /\ \A j \in 1..(i - 1) : s[j] # ch
    ELSE 0

\* String.prototype.split for a one-character separator: never an empty array
RECURSIVE Split(_, _)
Split(s, sep) ==
    LET i == IndexOf(s, sep)
    IN  IF i = 0
        THEN <<s>>
        ELSE <<SubSeq(s, 1, i - 1)>> \o Split(SubSeq(s, i + 1, Len(s)), sep)

\* Array.prototype.join: the empty array joins to the empty string
RECURSIVE Join(_, _)
Join(parts, sep) ==
    IF parts = <<>> THEN <<>>
    ELSE IF Len(parts) = 1 THEN parts[1]
    ELSE parts[1] \o sep \o Join(Tail(parts), sep)

\* String.prototype.startsWith
StartsWith(s, prefix) ==
    Len(s) >= Len(prefix) /\ SubSeq(s, 1, Len(prefix)) = prefix

\* All sequences over S of length lo..hi
SeqsOf(S, lo, hi) == UNION {[1..n -> S] : n \in lo..hi}

-----------------------------------------------------------------------------
(* The probe orchestrator.                                                 *)

Probes == {"capinfos", "ip_host_pairs", "mac_addresses", "protocol_hierarchy",
           "suricata", "tcp_streams", "udp_streams"}

\* The probes that await a single external tool and parse its text
TextProbes == {"capinfos", "ip_host_pairs", "mac_addresses", "protocol_hierarchy"}

Callers == 1..NumCallers

LogFields == <<"eve", "fast", "stats", "suricata">>

\* The record getSuricataAnalysis returns from its catch
AllAbsent == [eve |-> Null, fast |-> Null, stats |-> Null, suricata |-> Null]

\* What the parser of a text probe returns for the tool's output
Parsed(p) == <<p, "parsed">>

\* The documented default of a probe's field
DefaultOf(p) == IF p = "suricata" THEN AllAbsent ELSE <<>>

Fulfil(p, v) ==
    /\ promise' = [promise EXCEPT ![p] = "fulfilled"]
    /\ values' = values @@ (p :> v)

Reject(p) ==
    /\ promise' = [promise EXCEPT ![p] = "rejected"]
    /\ toolFailed' = toolFailed \cup {p}
    /\ UNCHANGED values

\* Promise.all: fulfilled once every element is
PromiseAllFulfilled == \A p \in Probes : promise[p] = "fulfilled"

\* Promise.all: rejected once any element is
PromiseAllRejected == \E p \in Probes : promise[p] = "rejected"

OrchInit ==
    \* new PcapAnalyzer(file): initialize() has run each probe up to its first
    \* await; getUdpStreams has none and returned []
    /\ promise = [p \in Probes |-> IF p = "udp_streams" THEN "fulfilled" ELSE "pending"]
    /\ values = ("udp_streams" :> <<>>)
    /\ toolFailed = {}
    /\ suriPc = "engine"
    /\ suriLogs = <<>>
    /\ tcpLines = -1
    /\ streams = <<>>
    /\ initPc = "await"
    /\ result = Null
    /\ pc = [c \in Callers |-> "idle"]
    /\ timers = 0
    /\ got = [c \in Callers |-> Null]

\* getCapinfos, getIpHostPairs, getMacAddresses, getProtocolHierarchy: the
\* awaited tool returns its text, or throws and nothing catches it
TextProbe(p) ==
    /\ promise[p] = "pending"
    /\ \E ok \in BOOLEAN :
          IF ok
          THEN Fulfil(p, Parsed(p)) /\ UNCHANGED toolFailed
          ELSE Reject(p)
    /\ UNCHANGED <<suriPc, suriLogs, tcpLines, streams, initPc, result, pc, timers, got>>

\* getSuricataAnalysis: await of the engine; a failure is caught
SuricataEngine ==
    /\ promise["suricata"] = "pending"
    /\ suriPc = "engine"
    /\ \E ok \in BOOLEAN :
          IF ok
          THEN /\ suriPc' = "read"
               /\ UNCHANGED <<promise, values, toolFailed>>
          ELSE /\ suriPc' = "done"
               /\ Fulfil("suricata", AllAbsent)
               /\ toolFailed' = toolFailed \cup {"suricata"}
    /\ UNCHANGED <<suriLogs, tcpLines, streams, initPc, result, pc, timers, got>>

\* A record in which one unreadable log blanks the other three
LogsRecordAllOrNone(l) ==
    IF \E i \in 1..Len(l) : l[i] = Null
    THEN AllAbsent
    ELSE [eve |-> l[1], fast |-> l[2], stats |-> l[3], suricata |-> l[4]]

\* The record the try block returns: { eve, fast, stats, suricata }
LogsRecord(l) == [eve |-> l[1], fast |-> l[2], stats |-> l[3], suricata |-> l[4]]

\* getSuricataAnalysis: await of the next Bun.file(..).text().catch(() => null)
SuricataRead ==
    /\ promise["suricata"] = "pending"
    /\ suriPc = "read"
    /\ \E text \in {Null, Some("log")} :
          LET logs == Append(suriLogs, text)
          IN  /\ suriLogs' = logs
              /\ IF Len(logs) = Len(LogFields)
                 THEN suriPc' = "done" /\ Fulfil("suricata", LogsRecord(logs))
                 ELSE suriPc' = "read" /\ UNCHANGED <<promise, values>>
    /\ UNCHANGED <<toolFailed, tcpLines, streams, initPc, result, pc, timers, got>>

\* getTcpStreams: await of the conversation listing
TcpList ==
    /\ promise["tcp_streams"] = "pending"
    /\ tcpLines = -1
    /\ \E ok \in BOOLEAN, n \in 0..MaxStreams :
          IF ok
          THEN /\ tcpLines' = n
               /\ IF n = 0
                  THEN Fulfil("tcp_streams", streams)
                  ELSE UNCHANGED <<promise, values>>
               /\ UNCHANGED toolFailed
          ELSE Reject("tcp_streams") /\ UNCHANGED tcpLines
    /\ UNCHANGED <<suriPc, suriLogs, streams, initPc, result, pc, timers, got>>

\* The record pushed for stream idx; the Node patterns match or leave ""
StreamRecord(idx, nodes) ==
    [stream_id |-> idx,
     ip_src |-> IF nodes THEN "10.0.0.1" ELSE "",
     sport |-> IF nodes THEN "1024" ELSE "",
     ip_dst |-> IF nodes THEN "10.0.0.2" ELSE "",
     dport |-> IF nodes THEN "80" ELSE "",
     text |-> IF nodes THEN "follow with nodes" ELSE "follow"]

\* Whether the Node 0 / Node 1 patterns match the transcripts tshark returns:
\* the captures followed here name both endpoints
FollowNodes == {TRUE}

\* getTcpStreams: await of the follow of stream idx = streams.length
TcpFollow ==
    /\ promise["tcp_streams"] = "pending"
    /\ tcpLines # -1
    /\ Len(streams) < tcpLines
    /\ \E ok \in BOOLEAN, nodes \in FollowNodes :
          IF ok
          THEN LET pushed == Append(streams, StreamRecord(Len(streams), nodes))
               IN  /\ streams' = pushed
                   /\ IF Len(pushed) = tcpLines
                      THEN Fulfil("tcp_streams", pushed)
                      ELSE UNCHANGED <<promise, values>>
                   /\ UNCHANGED toolFailed
          ELSE Reject("tcp_streams") /\ UNCHANGED streams
    /\ UNCHANGED <<suriPc, suriLogs, tcpLines, initPc, result, pc, timers, got>>

\* initialize: Promise.all fulfilled, the aggregate is assigned
InitializeAssign ==
    /\ initPc = "await"
    /\ PromiseAllFulfilled
    /\ result' = Some([p \in Probes |-> values[p]])
    /\ initPc' = "done"
    /\ UNCHANGED <<promise, values, toolFailed, suriPc, suriLogs, tcpLines, streams,
                   pc, timers, got>>

\* initialize: Promise.all rejected, the catch logs the error
InitializeCatch ==
    /\ initPc = "await"
    /\ PromiseAllRejected
    /\ initPc' = "caught"
    /\ UNCHANGED <<promise, values, toolFailed, suriPc, suriLogs, tcpLines, streams,
                   result, pc, timers, got>>

\* A getResult that does not wait for the aggregate
ResultReadyUnchecked == TRUE

\* The negated loop condition of getResult: this.result !== null
ResultReady == result # Null

\* getResult called: the loop condition is tested before the first await
GetResultCall(c) ==
    /\ pc[c] \in {"idle", "returned"}
    /\ IF ResultReady
       THEN /\ pc' = [pc EXCEPT ![c] = "returned"]
            /\ got' = [got EXCEPT ![c] = result]
            /\ UNCHANGED timers
       ELSE /\ pc' = [pc EXCEPT ![c] = "sleep"]
            /\ timers' = 1 - timers
            /\ UNCHANGED got
    /\ UNCHANGED <<promise, values, toolFailed, suriPc, suriLogs, tcpLines, streams,
                   initPc, result>>

\* getResult: the 100 ms timer fires, the loop condition is tested again
GetResultWake(c) ==
    /\ pc[c] = "sleep"
    /\ IF ResultReady
       THEN /\ pc' = [pc EXCEPT ![c] = "returned"]
            /\ got' = [got EXCEPT ![c] = result]
            /\ UNCHANGED timers
       ELSE /\ timers' = 1 - timers
            /\ UNCHANGED <<pc, got>>
    /\ UNCHANGED <<promise, values, toolFailed, suriPc, suriLogs, tcpLines, streams,
                   initPc, result>>

-----------------------------------------------------------------------------
(* getProtocolHierarchy: the stack-based tree build.                       *)
(*                                                                         *)
(* A report line is [shape, spaces, protocol, frames, bytes]: "node" is    *)
(* <spaces><protocol> frames:<frames> bytes:<bytes>, "unmatched" holds     *)
(* both markers but not in the pattern's form, "unrelated" lacks a marker. *)
(* A node is named by the number of its line in the report; node 0 is      *)
(* root.                                                                   *)

ProtoLineSet ==
    {[shape |-> "node", spaces |-> n, protocol |-> "ip", frames |-> 10, bytes |-> 100] :
        n \in 0..MaxIndent}
    \cup {[shape |-> "unmatched", spaces |-> 0, protocol |-> "", frames |-> 1, bytes |-> 2],
          [shape |-> "unrelated", spaces |-> 0, protocol |-> "===", frames |-> 0, bytes |-> 0]}

\* line.includes("frames:") && line.includes("bytes:")
IncludesMarkers(line) == line.shape \in {"node", "unmatched"}

\* line.match(/^(\s*)([^\s]+)\s+frames:(\d+)\s+bytes:(\d+)/)
Matches(line) == line.shape = "node"

\* protoOutput.split("\n").filter(line => ...): the numbers of the lines kept
RECURSIVE FilterMarkers(_, _)
FilterMarkers(output, i) ==
    IF i > Len(output) THEN <<>>
    ELSE (IF IncludesMarkers(output[i]) THEN <<i>> ELSE <<>>) \o FilterMarkers(output, i + 1)

RootNode == [protocol |-> "root", frames |-> 0, bytes |-> 0, children |-> <<>>]

\* A loop that pops only strictly deeper levels
PopsTopStrict(top, indent) == top.indent > indent

\* The condition under which the loop pops the top of the stack
PopsTop(top, indent) == top.indent >= indent

\* while (stack.length && stack[stack.length - 1].indent >= indent) stack.pop()
RECURSIVE PopStack(_, _)
PopStack(stack, indent) ==
    IF stack # <<>> /\ PopsTop(stack[Len(stack)], indent)
    THEN PopStack(SubSeq(stack, 1, Len(stack) - 1), indent)
    ELSE stack

\* One iteration of the loop over lines, for line number i
ProtoLine(st, i, line) ==
    IF ~Matches(line) THEN st
    ELSE LET indent == line.spaces
             node == [protocol |-> line.protocol, frames |-> line.frames,
                      bytes |-> line.bytes, children |-> <<>>]
             stack == PopStack(st.stack, indent)
             parent == stack[Len(stack)].node
         IN  [heap |-> [st.heap EXCEPT ![parent].children = Append(@, i)] @@ (i :> node),
              stack |-> Append(stack, [indent |-> indent, node |-> i])]

RECURSIVE ProtoLoop(_, _, _)
ProtoLoop(st, output, lines) ==
    IF lines = <<>> THEN st
    ELSE ProtoLoop(ProtoLine(st, Head(lines), output[Head(lines)]), output, Tail(lines))

\* The heap after the loop; the method returns root.children
BuildTree(output) ==
    ProtoLoop([heap |-> (0 :> RootNode), stack |-> <<[indent |-> -1, node |-> 0]>>],
              output, FilterMarkers(output, 1)).heap

ProtoIdle == protoOutput = <<>> /\ protoPc = "idle" /\ protoTree = (0 :> RootNode)

ProtoInit ==
    /\ protoOutput \in SeqsOf(ProtoLineSet, 0, MaxProtoLines)
    /\ protoPc = "start"
    /\ protoTree = (0 :> RootNode)

GetProtocolHierarchy ==
    /\ protoPc = "start"
    /\ protoTree' = BuildTree(protoOutput)
    /\ protoPc' = "done"
    /\ UNCHANGED protoOutput

-----------------------------------------------------------------------------
(* generateCustomRules: the rule-corpus filter.                            *)

IdTag == <<"#", " ", "I", "D", ":">>

\* The lines a corpus is made of: blank, rule text, ID lines (ID 1 with and
\* without padding, ID 2), and an indented ID line, which starts no block
RuleLineSet ==
    { <<>>,
      <<"r">>,
      IdTag \o <<" ", "1">>,
      IdTag \o <<"2", " ">>,
      <<" ">> \o IdTag \o <<"1">> }

\* The IDs an operator may select; no line of RuleLineSet carries ID 9
RuleIdSet == {<<"1">>, <<"2">>, <<"9">>}

\* String.prototype.replace(pattern, replacement) for a string pattern: the
\* first occurrence only
ReplaceFirst(s, pat, rep) ==
    LET At(i) == i + Len(pat) - 1 <= Len(s) /\ SubSeq(s, i, i + Len(pat) - 1) = pat
    IN  IF \E i \in 1..Len(s) : At(i)
        THEN LET i == CHOOSE i \in 1..Len(s) : At(i) /\ \A j \in 1..(i - 1) : ~At(j)
             IN  SubSeq(s, 1, i - 1) \o rep \o SubSeq(s, i + Len(pat), Len(s))
        ELSE s

\* if (currentBlock.length > 0 && includeBlock) filteredBlocks.push(...)
PushBlock(st) ==
    IF Len(st.currentBlock) > 0 /\ st.includeBlock
    THEN Append(st.filteredBlocks, Join(st.currentBlock, <<"\n">>))
    ELSE st.filteredBlocks

\* The body of the loop over lines
RuleLine(st, line, ids) ==
    IF StartsWith(line, IdTag)
    THEN [filteredBlocks |-> PushBlock(st),
          currentBlock |-> <<line>>,
          includeBlock |-> Trim(ReplaceFirst(line, IdTag, <<>>)) \in ids]
    ELSE [st EXCEPT !.currentBlock = Append(@, line)]

RECURSIVE RuleLoop(_, _, _)
RuleLoop(st, lines, ids) ==
    IF lines = <<>> THEN st
    ELSE RuleLoop(RuleLine(st, Head(lines), ids), Tail(lines), ids)

\* A filter that forgets the block still open when the lines end
FilterBlocksNoLast(corpus, ids) ==
    RuleLoop([filteredBlocks |-> <<>>, currentBlock |-> <<>>, includeBlock |-> FALSE],
             Split(corpus, "\n"), ids).filteredBlocks

\* filteredBlocks after the loop and the check of the last block
FilterBlocks(corpus, ids) ==
    PushBlock(RuleLoop([filteredBlocks |-> <<>>, currentBlock |-> <<>>,
                        includeBlock |-> FALSE],
                       Split(corpus, "\n"), ids))

RulesIdle ==
    /\ allRules = <<>>
    /\ selectedIds = {}
    /\ customRules = Null
    /\ filteredBlocks = <<>>
    /\ firstBlocks = <<>>
    /\ rulesPc = "idle"

RulesInit ==
    /\ \E lines \in SeqsOf(RuleLineSet, 1, MaxRuleLines) : allRules = Join(lines, <<"\n">>)
    /\ selectedIds \in SUBSET RuleIdSet
    /\ customRules = Null
    /\ filteredBlocks = <<>>
    /\ firstBlocks = <<>>
    /\ rulesPc = "start"

\* generateCustomRules(selectedIds), reading rules/all.rules and writing
\* rules/custom.rules
GenerateCustomRules ==
    /\ rulesPc \in {"start", "installed"}
    /\ rulesPc' = IF rulesPc = "start" THEN "filtered" ELSE "refiltered"
    /\ firstBlocks' = filteredBlocks
    /\ IF selectedIds = {}
       THEN /\ customRules' = Some(allRules)
            /\ UNCHANGED filteredBlocks
       ELSE LET blocks == FilterBlocks(allRules, selectedIds)
            IN  /\ filteredBlocks' = blocks
                /\ customRules' = Some(Join(blocks, <<"\n", "\n">>))
    /\ UNCHANGED <<allRules, selectedIds>>

\* The filtered corpus is made the corpus of the next run
InstallCustomRules ==
    /\ rulesPc = "filtered"
    /\ allRules' = TheValue(customRules)
    /\ rulesPc' = "installed"
    /\ UNCHANGED <<selectedIds, customRules, filteredBlocks, firstBlocks>>

-----------------------------------------------------------------------------
(* getCapinfos: the key/value parser.                                      *)

CapChars == {"k", " ", ":", "\n"}

\* "File name: capture.pcap\nFile type: PCAP"
CapExample ==
    <<"F", "i", "l", "e", " ", "n", "a", "m", "e", ":", " ", "c", "a", "p", "t", "u", "r", "e", ".", "p", "c", "a", "p", "\n">>
    \o <<"F", "i", "l", "e", " ", "t", "y", "p", "e", ":", " ", "P", "C", "A", "P">>

\* The separator expression of valueParts.join(":".trim())
JoinSeparator == Trim(<<":">>)

\* The body of the loop over lines; a later line replaces an earlier key
CapLine(acc, line) ==
    LET parts == Split(line, ":")
        key == Head(parts)
        value == Join(Tail(parts), JoinSeparator)
    IN  IF key # <<>> /\ value # <<>>
        THEN (Trim(key) :> value) @@ acc
        ELSE acc

RECURSIVE CapLoop(_, _)
CapLoop(acc, lines) ==
    IF lines = <<>> THEN acc ELSE CapLoop(CapLine(acc, Head(lines)), Tail(lines))

ParseCapinfos(output) == CapLoop(<<>>, Split(Trim(output), "\n"))

CapIdle == capinfosOutput = <<>> /\ capPc = "idle" /\ parsedResult = <<>>

CapInit ==
    /\ capinfosOutput \in SeqsOf(CapChars, 0, MaxCapLen) \cup {CapExample}
    /\ capPc = "start"
    /\ parsedResult = <<>>

\* getCapinfos: capinfos returns its text and it is parsed, or capinfos
\* fails and the method's promise rejects
GetCapinfos ==
    /\ capPc = "start"
    /\ \E ok \in BOOLEAN :
          IF ok
          THEN parsedResult' = ParseCapinfos(capinfosOutput) /\ capPc' = "done"
          ELSE UNCHANGED parsedResult /\ capPc' = "rejected"
    /\ UNCHANGED capinfosOutput

-----------------------------------------------------------------------------
(* getMacAddresses: the MAC inventory.                                     *)

MacAddressSet == {<<>>, <<"a">>, <<"a", " ">>, <<"b">>}
MacVendorSet == {<<"v">>, <<"w">>, <<" ">>}

\* A line is an address alone or address, tab, vendor
MacLineSet ==
    MacAddressSet \cup {a \o <<"\t">> \o v : a \in MacAddressSet, v \in MacVendorSet}

\* x?.trim() || null for the field after the tab, absent when the line has none
TrimOrNull(fields) ==
    IF Len(fields) >= 2 /\ Trim(fields[2]) # <<>> THEN Some(Trim(fields[2])) ELSE Null

\* Whether the map callback returns null for this address
MacSkipped(address, seen) == address = <<>> \/ address \in seen

\* The map callback followed by filter(Boolean), threading the seen set
RECURSIVE MacLoop(_, _, _)
MacLoop(acc, seen, lines) ==
    IF lines = <<>> THEN acc
    ELSE LET fields == Split(Head(lines), "\t")
             address == fields[1]
         IN  IF MacSkipped(address, seen)
             THEN MacLoop(acc, seen, Tail(lines))
             ELSE MacLoop(Append(acc, [address |-> Trim(address),
                                       manufacturer |-> TrimOrNull(fields)]),
                          seen \cup {address}, Tail(lines))

ParseMacs(output) == MacLoop(<<>>, {}, Split(Trim(output), "\n"))

MacIdle == macOutput = <<>> /\ macPc = "idle" /\ macAddresses = <<>>

MacInit ==
    /\ \E lines \in SeqsOf(MacLineSet, 1, MaxMacLines) : macOutput = Join(lines, <<"\n">>)
    /\ macPc = "start"
    /\ macAddresses = <<>>

GetMacAddresses ==
    /\ macPc = "start"
    /\ \E ok \in BOOLEAN :
          IF ok
          THEN macAddresses' = ParseMacs(macOutput) /\ macPc' = "done"
          ELSE UNCHANGED macAddresses /\ macPc' = "rejected"
    /\ UNCHANGED macOutput

-----------------------------------------------------------------------------
(* getIpHostPairs: host deduplication, address scope, domain guess.        *)

DigitChars == <<"0", "1", "2", "3", "4", "5", "6", "7", "8", "9">>

IsDigit(ch) == \E d \in 1..10 : DigitChars[d] = ch
DigitValue(ch) == (CHOOSE d \in 1..10 : DigitChars[d] = ch) - 1

\* Number.prototype.toString of a natural number
RECURSIVE ToDigits(_)
ToDigits(n) ==
    IF n < 10 THEN <<DigitChars[n + 1]>> ELSE ToDigits(n \div 10) \o <<DigitChars[(n % 10) + 1]>>

NaN == -1

RECURSIVE DecimalValue(_, _)
DecimalValue(s, acc) ==
    IF s = <<>> THEN acc ELSE DecimalValue(Tail(s), acc * 10 + DigitValue(Head(s)))

\* Number(string) on strings of digits, white space and letters: white space
\* is trimmed, the empty string is 0, anything but digits is NaN
Number(s) ==
    LET t == Trim(s)
    IN  IF \A i \in 1..Len(t) : IsDigit(t[i]) THEN DecimalValue(t, 0) ELSE NaN

\* A range test that leaves out 172.31
InRangeExclusive(b) == b # NaN /\ b >= 16 /\ b < 31

\* The range test on the second octet; a comparison with NaN is false
InRange(b) == b # NaN /\ b >= 16 /\ b <= 31

isPrivateIp(ip) ==
    LET parts == Split(ip, ".")
    IN  IF Len(parts) # 4 THEN FALSE
        ELSE LET a == Number(parts[1])
                 b == Number(parts[2])
             IN  a = 10 \/ (a = 172 /\ InRange(b)) \/ (a = 192 /\ b = 168)

\* The prefixes guessDomain tests, in its order
KnownPrefixes ==
    << [prefix |-> <<"1", "7", "3", ".", "1", "9", "4", ".">>, domain |-> <<"g", "o", "o", "g", "l", "e", ".", "c", "o", "m">>],
       [prefix |-> <<"7", "4", ".", "1", "2", "5", ".">>, domain |-> <<"g", "o", "o", "g", "l", "e", ".", "c", "o", "m">>],
       [prefix |-> <<"1", "5", "7", ".", "2", "4", "0", ".">>, domain |-> <<"f", "a", "c", "e", "b", "o", "o", "k", ".", "c", "o", "m">>],
       [prefix |-> <<"6", "9", ".", "1", "7", "1", ".">>, domain |-> <<"f", "a", "c", "e", "b", "o", "o", "k", ".", "c", "o", "m">>],
       [prefix |-> <<"3", "1", ".", "1", "3", ".">>, domain |-> <<"f", "a", "c", "e", "b", "o", "o", "k", ".", "c", "o", "m">>],
       [prefix |-> <<"5", "2", ".">>, domain |-> <<"a", "m", "a", "z", "o", "n", "a", "w", "s", ".", "c", "o", "m">>],
       [prefix |-> <<"5", "4", ".">>, domain |-> <<"a", "m", "a", "z", "o", "n", "a", "w", "s", ".", "c", "o", "m">>],
       [prefix |-> <<"3", ".">>, domain |-> <<"a", "m", "a", "z", "o", "n", "a", "w", "s", ".", "c", "o", "m">>],
       [prefix |-> <<"1", "0", "4", ".", "2", "4", "4", ".", "4", "2", ".">>, domain |-> <<"t", "w", "i", "t", "t", "e", "r", ".", "c", "o", "m">>],
       [prefix |-> <<"1", "5", "1", ".", "1", "0", "1", ".">>, domain |-> <<"f", "a", "s", "t", "l", "y", ".", "n", "e", "t">>],
       [prefix |-> <<"8", ".", "8", ".", "8", ".">>, domain |-> <<"g", "o", "o", "g", "l", "e", "-", "d", "n", "s">>],
       [prefix |-> <<"8", ".", "3", "4", ".", "2", "0", "8", ".">>, domain |-> <<"g", "o", "o", "g", "l", "e", "-", "d", "n", "s">>],
       [prefix |-> <<"8", ".", "3", "5", ".", "2", "0", "0", ".">>, domain |-> <<"g", "o", "o", "g", "l", "e", "-", "d", "n", "s">>] >>

\* The outcomes of execSync("dig -x ip +short"): it throws (Null) or returns
\* dig's output
DigResults == {Null, Some(<<>>), Some(<<"d", ".", "\n">>)}

\* rdns.replace(/\.$/, "")
StripRootDot(s) == IF s # <<>> /\ s[Len(s)] = "." THEN SubSeq(s, 1, Len(s) - 1) ELSE s

guessDomain(ip, dig) ==
    IF \E i \in 1..Len(KnownPrefixes) : StartsWith(ip, KnownPrefixes[i].prefix)
    THEN LET i == CHOOSE i \in 1..Len(KnownPrefixes) :
                     /\ StartsWith(ip, KnownPrefixes[i].prefix)
                     /\ \A j \in 1..(i - 1) : ~StartsWith(ip, KnownPrefixes[j].prefix)
         IN  Some(KnownPrefixes[i].domain)
    ELSE IF isPrivateIp(ip) THEN Null
    ELSE IF dig # Null /\ Trim(TheValue(dig)) # <<>>
         THEN Some(StripRootDot(Trim(TheValue(dig))))
         ELSE Null

\* acc.some(item => item.ip === ip)
HasIp(acc, ip) == \E i \in 1..Len(acc) : acc[i].ip = ip

\* A callback that does not look for the ip among the records
HostSkippedNoDedup(acc, ip) == ip = <<>>

\* Whether the reduce callback leaves acc as it is for this ip
HostSkipped(acc, ip) == ip = <<>> \/ HasIp(acc, ip)

\* The reduce callback for lines[i]; digs[i] is what dig returns if asked
HostLine(acc, line, dig) ==
    LET fields == Split(line, "\t")
        ip == fields[1]
    IN  IF HostSkipped(acc, ip) THEN acc
        ELSE LET cleanHost == TrimOrNull(fields)
                 finalHost == IF cleanHost # Null THEN cleanHost ELSE guessDomain(ip, dig)
             IN  Append(acc, [ip |-> ip, host |-> finalHost,
                              type |-> IF isPrivateIp(ip) THEN "private" ELSE "public"])

RECURSIVE HostLoop(_, _, _, _)
HostLoop(acc, lines, digs, i) ==
    IF i > Len(lines) THEN acc
    ELSE HostLoop(HostLine(acc, lines[i], digs[i]), lines, digs, i + 1)

\* The lines the reduce runs over
HostLines(output) == Split(Trim(output), "\n")

ParseHosts(output, digs) == HostLoop(<<>>, HostLines(output), digs, 1)

\* a.b.c.d
DottedQuad(a, b, c, d) ==
    ToDigits(a) \o <<".">> \o ToDigits(b) \o <<".">> \o ToDigits(c) \o <<".">> \o ToDigits(d)

\* Source addresses of the listings with several lines: none, a private one,
\* one a known prefix names, one only dig can name
HostIpSet == {<<>>, DottedQuad(10, 0, 0, 1), DottedQuad(8, 8, 8, 8), DottedQuad(9, 9, 9, 9)}
HostNameSet == {<<"h">>, <<"g">>, <<" ">>}

HostLineSet ==
    HostIpSet \cup {ip \o <<"\t">> \o h : ip \in HostIpSet, h \in HostNameSet}

HostTexts == {Join(lines, <<"\n">>) : lines \in SeqsOf(HostLineSet, 1, MaxHostLines)}

\* Addresses with other than four parts
OddIpSet ==
    {ToDigits(a) : a \in {10, 172, 192}}
    \cup {ToDigits(a) \o <<".">> \o ToDigits(b) : a \in {10, 172, 192}, b \in {16, 168}}
    \cup {ToDigits(a) \o <<".">> \o ToDigits(b) \o <<".">> \o ToDigits(0) :
            a \in {10, 172, 192}, b \in {16, 168}}
    \cup {DottedQuad(a, b, 0, 0) \o <<".">> \o ToDigits(1) : a \in {10, 172, 192}, b \in {16, 168}}

\* One-line listings over every value of the first two octets
ScopeTexts ==
    {DottedQuad(a, b, 0, 1) : a \in 0..255, b \in 0..255}
    \cup OddIpSet
    \cup {ip \o <<"\t", "h">> : ip \in OddIpSet}

IpIdle == ipHostOutput = <<>> /\ ipPc = "idle" /\ ipHostPairs = <<>>

IpInit ==
    /\ ipHostOutput \in HostTexts \cup ScopeTexts
    /\ ipPc = "start"
    /\ ipHostPairs = <<>>

GetIpHostPairs ==
    /\ ipPc = "start"
    /\ \E ok \in BOOLEAN :
          IF ok
          THEN /\ \E digs \in [1..Len(HostLines(ipHostOutput)) -> DigResults] :
                     ipHostPairs' = ParseHosts(ipHostOutput, digs)
               /\ ipPc' = "done"
          ELSE UNCHANGED ipHostPairs /\ ipPc' = "rejected"
    /\ UNCHANGED ipHostOutput

-----------------------------------------------------------------------------
(* dropFile: the capture file and the scratch logs are removed.            *)

\* A catch that throws the error again
AfterRethrow == "raised"

\* Where dropFile is after its catch block: the error is logged and the
\* function returns
AfterCatch == "returned"

FilesIdle == captureFile = Null /\ scratchLogs = Null

DropIdle == dropPc = "unused"

\* The analyzer was constructed on request 1's upload; no log has been written
DropInit ==
    /\ captureFile = Some(1)
    /\ scratchLogs = Null
    /\ dropPc = "idle"

\* suricata -r <pcapFile> -l tmp/suricata_logs: a run that succeeds leaves its
\* logs in the scratch directory
EngineWrites ==
    /\ scratchLogs' = IF suriPc' = "read" THEN captureFile ELSE scratchLogs
    /\ UNCHANGED captureFile

\* dropFile called: rm <pcapFile> is started and awaited
DropFileCall ==
    /\ dropPc = "idle"
    /\ dropPc' = "rmPcap"
    /\ UNCHANGED fileVars

\* dropFile: rm <pcapFile> returns, or fails and the catch logs
DropFileRmPcap ==
    /\ dropPc = "rmPcap"
    /\ \E ok \in BOOLEAN :
          IF ok /\ captureFile # Null
          THEN /\ captureFile' = Null
               /\ dropPc' = "rmLogs"
               /\ UNCHANGED scratchLogs
          ELSE /\ dropPc' = AfterCatch
               /\ UNCHANGED fileVars

\* dropFile: rm tmp/suricata_logs/* returns, or fails and the catch logs
DropFileRmLogs ==
    /\ dropPc = "rmLogs"
    /\ \E ok \in BOOLEAN :
          IF ok /\ scratchLogs # Null
          THEN /\ scratchLogs' = Null
               /\ dropPc' = "returned"
               /\ UNCHANGED captureFile
          ELSE /\ dropPc' = AfterCatch
               /\ UNCHANGED fileVars

-----------------------------------------------------------------------------
(* Bun.serve fetch: every POST writes its upload to tmp/uploaded.pcap,     *)
(* constructs a PcapAnalyzer on that path, awaits getResult, awaits        *)
(* dropFile and responds.  The analyzer of a request is kept to what it    *)
(* does with the two shared paths: tools is the promise of the probes that *)
(* run capinfos and tshark on the capture file, suricata the position of   *)
(* getSuricataAnalysis, result whether this.result has been assigned.      *)

Requests == 1..NumRequests

NoAnalyzer == [tools |-> "none", suricata |-> "none", result |-> FALSE]

\* new PcapAnalyzer(path): every probe has run up to its first await
NewAnalyzer == [tools |-> "pending", suricata |-> "engine", result |-> FALSE]

\* Some probe of request r's analyzer has not resolved
Unresolved(r) ==
    analyzers[r].tools = "pending" \/ analyzers[r].suricata \in {"engine", "read"}

ServeIdle ==
    /\ reqPc = [r \in Requests |-> "unused"]
    /\ analyzers = [r \in Requests |-> NoAnalyzer]

\* Every handler has parsed its form and awaits Bun.write
ServeInit ==
    /\ reqPc = [r \in Requests |-> "write"]
    /\ analyzers = [r \in Requests |-> NoAnalyzer]
    /\ captureFile = Null
    /\ scratchLogs = Null

\* await Bun.write('tmp/uploaded.pcap', ...): written, or the catch answers 500
FetchWrite(r) ==
    /\ reqPc[r] = "write"
    /\ \E ok \in BOOLEAN :
          IF ok
          THEN /\ captureFile' = Some(r)
               /\ reqPc' = [reqPc EXCEPT ![r] = "written"]
          ELSE /\ reqPc' = [reqPc EXCEPT ![r] = "error500"]
               /\ UNCHANGED captureFile
    /\ UNCHANGED <<scratchLogs, analyzers>>

\* new PcapAnalyzer('tmp/uploaded.pcap'); await analyzer.getResult()
FetchAnalyze(r) ==
    /\ reqPc[r] = "written"
    /\ reqPc' = [reqPc EXCEPT ![r] = "getResult"]
    /\ analyzers' = [analyzers EXCEPT ![r] = NewAnalyzer]
    /\ UNCHANGED fileVars

\* The capinfos and tshark probes of r's analyzer: they fail on a missing
\* capture file, and nothing catches their failure
AnalyzerTools(r) ==
    /\ analyzers[r].tools = "pending"
    /\ \E ok \in BOOLEAN :
          analyzers' = [analyzers EXCEPT ![r].tools =
                          IF ok /\ captureFile # Null THEN "fulfilled" ELSE "rejected"]
    /\ UNCHANGED <<reqPc, fileVars>>

\* getSuricataAnalysis of r's analyzer: the engine reads the capture file and
\* leaves its logs in tmp/suricata_logs; its failure is caught
AnalyzerEngine(r) ==
    /\ analyzers[r].suricata = "engine"
    /\ \E ok \in BOOLEAN :
          IF ok /\ captureFile # Null
          THEN /\ scratchLogs' = captureFile
               /\ analyzers' = [analyzers EXCEPT ![r].suricata = "read"]
          ELSE /\ analyzers' = [analyzers EXCEPT ![r].suricata = "fulfilled"]
               /\ UNCHANGED scratchLogs
    /\ UNCHANGED <<reqPc, captureFile>>

\* getSuricataAnalysis of r's analyzer: the four logs are read, each null when
\* it cannot be
AnalyzerReadLogs(r) ==
    /\ analyzers[r].suricata = "read"
    /\ analyzers' = [analyzers EXCEPT ![r].suricata = "fulfilled"]
    /\ UNCHANGED <<reqPc, fileVars>>

\* initialize of r's analyzer: Promise.all fulfilled, this.result assigned
AnalyzerAssign(r) ==
    /\ analyzers[r].tools = "fulfilled"
    /\ analyzers[r].suricata = "fulfilled"
    /\ ~analyzers[r].result
    /\ analyzers' = [analyzers EXCEPT ![r].result = TRUE]
    /\ UNCHANGED <<reqPc, fileVars>>

\* getResult returns to the handler, which calls analyzer.dropFile()
FetchDropFile(r) ==
    /\ reqPc[r] = "getResult"
    /\ analyzers[r].result
    /\ reqPc' = [reqPc EXCEPT ![r] = "rmPcap"]
    /\ UNCHANGED <<analyzers, fileVars>>

\* dropFile of r's analyzer: rm tmp/uploaded.pcap returns, or fails and the
\* catch logs
FetchRmPcap(r) ==
    /\ reqPc[r] = "rmPcap"
    /\ \E ok \in BOOLEAN :
          IF ok /\ captureFile # Null
          THEN /\ captureFile' = Null
               /\ reqPc' = [reqPc EXCEPT ![r] = "rmLogs"]
          ELSE /\ reqPc' = [reqPc EXCEPT ![r] = "dropped"]
               /\ UNCHANGED captureFile
    /\ UNCHANGED <<scratchLogs, analyzers>>

\* dropFile of r's analyzer: rm tmp/suricata_logs/* returns, or fails and the
\* catch logs
FetchRmLogs(r) ==
    /\ reqPc[r] = "rmLogs"
    /\ \E ok \in BOOLEAN :
          /\ scratchLogs' = IF ok THEN Null ELSE scratchLogs
          /\ reqPc' = [reqPc EXCEPT ![r] = "dropped"]
    /\ UNCHANGED <<captureFile, analyzers>>

\* The handler returns the JSON of the result
FetchRespond(r) ==
    /\ reqPc[r] = "dropped"
    /\ reqPc' = [reqPc EXCEPT ![r] = "responded"]
    /\ UNCHANGED <<analyzers, fileVars>>

-----------------------------------------------------------------------------
(* Specifications: the analyzer instance, and one per parser and filter.   *)

OrchIdle ==
    /\ promise = [p \in Probes |-> "pending"]
    /\ values = <<>>
    /\ toolFailed = {}
    /\ suriPc = "idle"
    /\ suriLogs = <<>>
    /\ tcpLines = -1
    /\ streams = <<>>
    /\ initPc = "idle"
    /\ result = Null
    /\ pc = [c \in Callers |-> "unused"]
    /\ timers = 0
    /\ got = [c \in Callers |-> Null]

Init ==
    OrchInit /\ ProtoIdle /\ RulesIdle /\ CapIdle /\ MacIdle /\ IpIdle
    /\ FilesIdle /\ DropIdle /\ ServeIdle

parserVars == <<protoVars, rulesVars, capVars, macVars, ipVars>>
otherVars == <<parserVars, fileVars, dropVars, serveVars>>

Next ==
    \/ (\E p \in TextProbes : TextProbe(p)) /\ UNCHANGED otherVars
    \/ SuricataEngine /\ UNCHANGED otherVars
    \/ SuricataRead /\ UNCHANGED otherVars
    \/ TcpList /\ UNCHANGED otherVars
    \/ TcpFollow /\ UNCHANGED otherVars
    \/ InitializeAssign /\ UNCHANGED otherVars
    \/ InitializeCatch /\ UNCHANGED otherVars
    \/ (\E c \in Callers : GetResultCall(c)) /\ UNCHANGED otherVars
    \/ (\E c \in Callers : GetResultWake(c)) /\ UNCHANGED otherVars

Spec == Init /\ [][Next]_vars

\* The event loop runs every continuation and timer that is ready, and every
\* external tool returns or fails
Fairness ==
    /\ \A p \in TextProbes : WF_vars(TextProbe(p) /\ UNCHANGED otherVars)
    /\ WF_vars(SuricataEngine /\ UNCHANGED otherVars)
    /\ WF_vars(SuricataRead /\ UNCHANGED otherVars)
    /\ WF_vars(TcpList /\ UNCHANGED otherVars)
    /\ WF_vars(TcpFollow /\ UNCHANGED otherVars)
    /\ WF_vars(InitializeAssign /\ UNCHANGED otherVars)
    /\ WF_vars(InitializeCatch /\ UNCHANGED otherVars)
    /\ \A c \in Callers : WF_vars(GetResultWake(c) /\ UNCHANGED otherVars)

FairSpec == Init /\ [][Next]_vars /\ Fairness

ProtoSpecInit ==
    OrchIdle /\ ProtoInit /\ RulesIdle /\ CapIdle /\ MacIdle /\ IpIdle
    /\ FilesIdle /\ DropIdle /\ ServeIdle
ProtoNext ==
    GetProtocolHierarchy /\ UNCHANGED <<fileVars, dropVars, serveVars, orchVars, rulesVars, capVars, macVars, ipVars>>
ProtoSpec == ProtoSpecInit /\ [][ProtoNext]_vars

RulesSpecInit ==
    OrchIdle /\ ProtoIdle /\ RulesInit /\ CapIdle /\ MacIdle /\ IpIdle
    /\ FilesIdle /\ DropIdle /\ ServeIdle
RulesNext ==
    \/ GenerateCustomRules /\ UNCHANGED <<fileVars, dropVars, serveVars, orchVars, protoVars, capVars, macVars, ipVars>>
    \/ InstallCustomRules /\ UNCHANGED <<fileVars, dropVars, serveVars, orchVars, protoVars, capVars, macVars, ipVars>>
RulesSpec == RulesSpecInit /\ [][RulesNext]_vars

CapSpecInit ==
    OrchIdle /\ ProtoIdle /\ RulesIdle /\ CapInit /\ MacIdle /\ IpIdle
    /\ FilesIdle /\ DropIdle /\ ServeIdle
CapNext ==
    GetCapinfos /\ UNCHANGED <<fileVars, dropVars, serveVars, orchVars, protoVars, rulesVars, macVars, ipVars>>
CapSpec == CapSpecInit /\ [][CapNext]_vars

MacSpecInit ==
    OrchIdle /\ ProtoIdle /\ RulesIdle /\ CapIdle /\ MacInit /\ IpIdle
    /\ FilesIdle /\ DropIdle /\ ServeIdle
MacNext ==
    GetMacAddresses /\ UNCHANGED <<fileVars, dropVars, serveVars, orchVars, protoVars, rulesVars, capVars, ipVars>>
MacSpec == MacSpecInit /\ [][MacNext]_vars

IpSpecInit ==
    OrchIdle /\ ProtoIdle /\ RulesIdle /\ CapIdle /\ MacIdle /\ IpInit
    /\ FilesIdle /\ DropIdle /\ ServeIdle
IpNext ==
    GetIpHostPairs /\ UNCHANGED <<fileVars, dropVars, serveVars, orchVars, protoVars, rulesVars, capVars, macVars>>
IpSpec == IpSpecInit /\ [][IpNext]_vars

\* The analyzer with its reclaimer: caller 1 reads the result before dropFile
\* is called, caller 2 after dropFile has ended and caller 1 holds an aggregate
DropSpecInit ==
    OrchInit /\ ProtoIdle /\ RulesIdle /\ CapIdle /\ MacIdle /\ IpIdle
    /\ DropInit /\ ServeIdle

DropNext ==
    \/ (\E p \in TextProbes : TextProbe(p)) /\ UNCHANGED otherVars
    \/ SuricataEngine /\ EngineWrites /\ UNCHANGED <<parserVars, dropVars, serveVars>>
    \/ SuricataRead /\ UNCHANGED otherVars
    \/ TcpList /\ UNCHANGED otherVars
    \/ TcpFollow /\ UNCHANGED otherVars
    \/ InitializeAssign /\ UNCHANGED otherVars
    \/ InitializeCatch /\ UNCHANGED otherVars
    \/ dropPc = "idle" /\ GetResultCall(1) /\ UNCHANGED otherVars
    \/ dropPc \notin {"idle", "rmPcap", "rmLogs"} /\ got[1] # Null /\ GetResultCall(2)
           /\ UNCHANGED otherVars
    \/ (\E c \in Callers : GetResultWake(c)) /\ UNCHANGED otherVars
    \/ DropFileCall /\ UNCHANGED <<orchVars, parserVars, serveVars>>
    \/ DropFileRmPcap /\ UNCHANGED <<orchVars, parserVars, serveVars>>
    \/ DropFileRmLogs /\ UNCHANGED <<orchVars, parserVars, serveVars>>

DropSpec == DropSpecInit /\ [][DropNext]_vars

\* The server with NumRequests uploads in flight
ServeSpecInit ==
    OrchIdle /\ ProtoIdle /\ RulesIdle /\ CapIdle /\ MacIdle /\ IpIdle
    /\ DropIdle /\ ServeInit

ServeNext ==
    \/ (\E r \in Requests : FetchWrite(r)) /\ UNCHANGED <<orchVars, parserVars, dropVars>>
    \/ (\E r \in Requests : FetchAnalyze(r)) /\ UNCHANGED <<orchVars, parserVars, dropVars>>
    \/ (\E r \in Requests : AnalyzerTools(r)) /\ UNCHANGED <<orchVars, parserVars, dropVars>>
    \/ (\E r \in Requests : AnalyzerEngine(r)) /\ UNCHANGED <<orchVars, parserVars, dropVars>>
    \/ (\E r \in Requests : AnalyzerReadLogs(r)) /\ UNCHANGED <<orchVars, parserVars, dropVars>>
    \/ (\E r \in Requests : AnalyzerAssign(r)) /\ UNCHANGED <<orchVars, parserVars, dropVars>>
    \/ (\E r \in Requests : FetchDropFile(r)) /\ UNCHANGED <<orchVars, parserVars, dropVars>>
    \/ (\E r \in Requests : FetchRmPcap(r)) /\ UNCHANGED <<orchVars, parserVars, dropVars>>
    \/ (\E r \in Requests : FetchRmLogs(r)) /\ UNCHANGED <<orchVars, parserVars, dropVars>>
    \/ (\E r \in Requests : FetchRespond(r)) /\ UNCHANGED <<orchVars, parserVars, dropVars>>

ServeSpec == ServeSpecInit /\ [][ServeNext]_vars

-----------------------------------------------------------------------------
(* Properties of the probe orchestrator.                                   *)

AllSettled == \A p \in Probes : promise[p] # "pending"

\* C1: when exactly one probe's external tool has failed and everything has
\* settled, the aggregate is ready, the failed probe's field holds its
\* documented default and the other six fields hold what their probes produced.
C1_ProbeFailureIsolated ==
    \A p \in Probes :
        (toolFailed = {p} /\ AllSettled /\ initPc # "await")
        => /\ result # Null
           /\ TheValue(result)[p] = DefaultOf(p)
           /\ \A q \in Probes \ {p} : TheValue(result)[q] = values[q]

\* C2: once all seven probes have settled, a getResult caller that is waiting
\* eventually stops waiting.
C2_GetResultCompletes ==
    \A c \in Callers : (AllSettled /\ pc[c] = "sleep") ~> (pc[c] # "sleep")

\* C3: result goes from null to present at most once and only when all seven
\* probes have resolved, to the aggregate of their seven values; it never
\* changes afterwards; every getResult call that has returned returned that
\* aggregate, never null and never a part of it.
C3_ResultCell ==
    /\ [][result # Null => result' = result]_vars
    /\ [][(result = Null /\ result' # Null)
            => /\ \A p \in Probes : p \in DOMAIN values
               /\ result' = Some([p \in Probes |-> values[p]])]_vars
    /\ [](\A c \in Callers :
            /\ pc[c] = "returned" => got[c] # Null
            /\ got[c] # Null => got[c] = result /\ DOMAIN TheValue(got[c]) = Probes)

\* Two callers, one that waited and one that called later, hold the aggregate
C3_Witness ==
    /\ result # Null
    /\ \A c \in Callers : pc[c] = "returned" /\ got[c] = result
    /\ timers = 1

\* C11: once the conversations have been listed, a failing follow of one
\* stream index never makes the stream probe fail: the probe's promise is never
\* rejected, and when it settles it is fulfilled with a value that holds every
\* record reconstructed for the other indices.
C11_StreamFailureIsolated ==
    (tcpLines # -1 /\ promise["tcp_streams"] # "pending")
    => /\ promise["tcp_streams"] = "fulfilled"
       /\ \A k \in 1..Len(streams) :
              \E m \in 1..Len(values["tcp_streams"]) :
                  values["tcp_streams"][m] = streams[k]

\* C12: the promise getSuricataAnalysis returned is never rejected; when the
\* engine failed the probe's value is the all-absent record; when the engine
\* succeeded each of the four fields is what the read of its own file gave,
\* null exactly when that read failed, whatever the other three reads gave.
C12_SuricataDegrades ==
    /\ promise["suricata"] # "rejected"
    /\ promise["suricata"] = "fulfilled"
       => IF "suricata" \in toolFailed
          THEN values["suricata"] = AllAbsent
          ELSE /\ Len(suriLogs) = Len(LogFields)
               /\ DOMAIN values["suricata"] = {LogFields[i] : i \in 1..Len(LogFields)}
               /\ \A i \in 1..Len(LogFields) :
                      values["suricata"][LogFields[i]] = suriLogs[i]

\* The engine ran, one log could not be read and the other three were kept
C12_Witness ==
    /\ promise["suricata"] = "fulfilled"
    /\ "suricata" \notin toolFailed
    /\ values["suricata"].fast = Null
    /\ \A f \in {"eve", "stats", "suricata"} : values["suricata"][f] # Null

\* C13: dropFile never raises to its caller, whatever the two deletions do;
\* no step of dropFile changes the result cell or what getResult has returned;
\* the aggregate a caller got before dropFile was called is the aggregate a
\* caller gets after dropFile has ended, and it is still the result cell.
C13_DropFileFrame ==
    /\ [](dropPc # "raised")
    /\ [][(dropPc' # dropPc) => (result' = result /\ got' = got)]_vars
    /\ []((got[1] # Null /\ got[2] # Null) => (got[1] = got[2] /\ got[2] = result))

\* Caller 1 got the aggregate, the removal of the capture file failed, dropFile
\* returned, and caller 2 then got the same aggregate
C13_Witness ==
    /\ dropPc = "returned"
    /\ captureFile # Null
    /\ got[1] # Null
    /\ pc[2] = "returned"
    /\ got[2] = got[1]

\* C14: while some probe of a request's analyzer has not resolved, no step of
\* another request's handler (its upload, its dropFile) changes the capture
\* file or the scratch logs that analyzer works on.
C14_FilesExclusivelyOwned ==
    [][\A r \in Requests : \A s \in Requests \ {r} :
          (Unresolved(r) /\ reqPc'[s] # reqPc[s]) => fileVars' = fileVars]_vars

-----------------------------------------------------------------------------
(* Properties of the protocol-hierarchy tree.                              *)

Max(S) == CHOOSE x \in S : \A y \in S : y <= x
Min(S) == CHOOSE x \in S : \A y \in S : x <= y

\* The elements of a set of numbers in ascending order
RECURSIVE Ascending(_)
Ascending(S) == IF S = {} THEN <<>> ELSE <<Min(S)>> \o Ascending(S \ {Min(S)})

\* The numbers of the report lines of the form <indent><token> frames:N bytes:M
NodeLines == {i \in 1..Len(protoOutput) : protoOutput[i].shape = "node"}

\* The nearest preceding node line with strictly smaller indentation, 0 if none
NearestShallower(i) ==
    LET above == {j \in NodeLines :
                    j < i /\ protoOutput[j].spaces < protoOutput[i].spaces}
    IN  IF above = {} THEN 0 ELSE Max(above)

\* The places (node, position in its children) that hold node i
PlacesOf(tree, i) ==
    {<<q, k>> \in (DOMAIN tree) \X (1..MaxProtoLines) :
        k <= Len(tree[q].children) /\ tree[q].children[k] = i}

RECURSIVE Preorder(_, _)
RECURSIVE PreorderAll(_, _)
Preorder(tree, n) == <<n>> \o PreorderAll(tree, tree[n].children)
PreorderAll(tree, kids) ==
    IF kids = <<>> THEN <<>>
    ELSE Preorder(tree, Head(kids)) \o PreorderAll(tree, Tail(kids))

\* C4: every node line yields one node, carrying the line's token and counters;
\* its parent is the node of the nearest preceding node line with strictly
\* smaller indentation, or root when there is none (so lines of equal
\* indentation under one parent are siblings), and the pre-order traversal of
\* the returned forest is the node lines in source order.
C4_TreeBuild ==
    protoPc = "done" =>
        /\ DOMAIN protoTree = NodeLines \cup {0}
        /\ \A i \in NodeLines :
              /\ PlacesOf(protoTree, i) # {}
              /\ \A pl \in PlacesOf(protoTree, i) :
                    /\ PlacesOf(protoTree, i) = {pl}
                    /\ pl[1] = NearestShallower(i)
              /\ protoTree[i].protocol = protoOutput[i].protocol
              /\ protoTree[i].frames = protoOutput[i].frames
              /\ protoTree[i].bytes = protoOutput[i].bytes
        /\ PreorderAll(protoTree, protoTree[0].children) = Ascending(NodeLines)

\* A report with a line that is no node and a node whose parent is neither
\* root nor the line just before it
C4_Witness ==
    /\ protoPc = "done"
    /\ NodeLines # 1..Len(protoOutput)
    /\ \E i \in NodeLines :
          /\ NearestShallower(i) \notin {0, i - 1}
          /\ PlacesOf(protoTree, i) = {<<NearestShallower(i), 2>>}

-----------------------------------------------------------------------------
(* Properties of the rule-corpus filter.                                   *)

\* The numbers of the lines that start a block
BlockStarts(lines) == {i \in 1..Len(lines) : StartsWith(lines[i], IdTag)}

\* The lines of the block starting at line s: up to the next `# ID:` line
\* or the end
BlockAt(lines, s) ==
    LET later == {t \in BlockStarts(lines) : t > s}
    IN  SubSeq(lines, s, IF later = {} THEN Len(lines) ELSE Min(later) - 1)

\* The ID a block's first line carries
BlockId(line) == Trim(SubSeq(line, Len(IdTag) + 1, Len(line)))

\* The blocks starting at the lines of S, in corpus order, one blank line
\* between consecutive blocks
RECURSIVE EmitBlocks(_, _)
EmitBlocks(lines, S) ==
    IF S = {} THEN <<>>
    ELSE BlockAt(lines, Min(S))
         \o (IF S = {Min(S)} THEN <<>> ELSE <<<<>>>> \o EmitBlocks(lines, S \ {Min(S)}))

\* The blocks of the corpus whose ID is in ids, as the text written
SelectedBlocks(corpus, ids) ==
    LET lines == Split(corpus, "\n")
        chosen == {s \in BlockStarts(lines) : BlockId(lines[s]) \in ids}
    IN  Join(EmitBlocks(lines, chosen), <<"\n">>)

\* What the claim says is written for a corpus and a selection
ClaimedRules(corpus, ids) == IF ids = {} THEN corpus ELSE SelectedBlocks(corpus, ids)

\* C5: with an empty selection the corpus is written unchanged; otherwise the
\* output is, in corpus order, exactly the blocks whose ID is selected, one
\* blank line between consecutive blocks; unselected blocks and the lines
\* before the first `# ID:` line are not emitted, and a selected ID that
\* matches no block changes nothing.
C5_FilterOutput ==
    rulesPc \in {"filtered", "refiltered"}
    => /\ customRules = Some(ClaimedRules(allRules, selectedIds))
       /\ selectedIds # {}
             => customRules = Some(SelectedBlocks(allRules, selectedIds \ {<<"9">>}))

\* Two blocks are emitted around one that is not, the lines before the first
\* block are dropped, and an ID that matches no block is selected
C5_Witness ==
    /\ rulesPc = "filtered"
    /\ <<"9">> \in selectedIds
    /\ Len(filteredBlocks) = 2
    /\ Cardinality(BlockStarts(Split(allRules, "\n"))) = 3
    /\ ~StartsWith(allRules, IdTag)

\* C6: filtering the output of a filtering by a non-empty selection, again by
\* that selection, yields the same sequence of blocks, each with the same lines.
C6_FilterIdempotent ==
    (rulesPc = "refiltered" /\ selectedIds # {}) => filteredBlocks = firstBlocks

-----------------------------------------------------------------------------
(* Properties of the capinfos parser.                                      *)

\* What the claim says one line adds: the line is split at its first colon,
\* both sides are trimmed, and a missing key or an empty value adds nothing
ClaimedCapLine(acc, line) ==
    LET i == IndexOf(line, ":")
        key == Trim(SubSeq(line, 1, i - 1))
        val == Trim(SubSeq(line, i + 1, Len(line)))
    IN  IF i # 0 /\ key # <<>> /\ val # <<>> THEN (key :> val) @@ acc ELSE acc

RECURSIVE ClaimedCapinfos(_, _)
ClaimedCapinfos(acc, lines) ==
    IF lines = <<>> THEN acc
    ELSE ClaimedCapinfos(ClaimedCapLine(acc, Head(lines)), Tail(lines))

\* C7: each line is split at its first colon only, key and value are both
\* trimmed, and a line with no key or an empty value adds no entry.
C7_CapinfosParsed ==
    capPc = "done" => parsedResult = ClaimedCapinfos(<<>>, Split(capinfosOutput, "\n"))

-----------------------------------------------------------------------------
(* Properties of the MAC inventory.                                        *)

\* The lines the parser maps over
MacLines == Split(Trim(macOutput), "\n")

\* C8: no two records have the same address after trimming, and the record
\* kept for an address carries the vendor of the address's first occurrence.
C8_MacDeduplicated ==
    macPc = "done" =>
        /\ \A i, j \in 1..Len(macAddresses) :
              i # j => Trim(macAddresses[i].address) # Trim(macAddresses[j].address)
        /\ \A i \in 1..Len(macAddresses) :
              LET carrying == {n \in 1..Len(MacLines) :
                                 Trim(Split(MacLines[n], "\t")[1]) = macAddresses[i].address}
              IN  macAddresses[i].manufacturer = TrimOrNull(Split(MacLines[Min(carrying)], "\t"))

-----------------------------------------------------------------------------
(* Properties of the host inventory.                                       *)

\* The source IP of listing line n
LineIp(n) == Split(HostLines(ipHostOutput)[n], "\t")[1]

\* The lines that carry an IP no earlier line carries
FirstOccurrences ==
    {n \in 1..Len(HostLines(ipHostOutput)) :
        LineIp(n) # <<>> /\ \A m \in 1..(n - 1) : LineIp(m) # LineIp(n)}

\* C9: at most one record per distinct IP, records in the order of each IP's
\* first occurrence, and each record the one the first line carrying its IP
\* yields by itself: host its trimmed query name if it has one, else the guess
\* for the IP; no later line changes or replaces it.
C9_HostsDeduplicated ==
    ipPc = "done" =>
        LET firsts == Ascending(FirstOccurrences)
        IN  /\ \A i, j \in 1..Len(ipHostPairs) :
                  i # j => ipHostPairs[i].ip # ipHostPairs[j].ip
            /\ Len(ipHostPairs) = Len(firsts)
            /\ \A k \in 1..Len(firsts) :
                  LET line == HostLines(ipHostOutput)[firsts[k]]
                      name == TrimOrNull(Split(line, "\t"))
                  IN  /\ ipHostPairs[k].ip = LineIp(firsts[k])
                      /\ name # Null => ipHostPairs[k].host = name
                      /\ \E dig \in DigResults :
                            <<ipHostPairs[k]>> = HostLine(<<>>, line, dig)

\* An IP is listed twice with different query names; the first name is kept
C9_Witness ==
    /\ ipPc = "done"
    /\ Len(HostLines(ipHostOutput)) = 2
    /\ LineIp(1) = LineIp(2)
    /\ Len(ipHostPairs) = 1
    /\ ipHostPairs[1].host = Some(<<"h">>)
    /\ TrimOrNull(Split(HostLines(ipHostOutput)[2], "\t")) = Some(<<"g">>)

\* Whether s is a decimal number 0..255
IsOctet(s) ==
    /\ s # <<>>
    /\ \A i \in 1..Len(s) : IsDigit(s[i])
    /\ DecimalValue(s, 0) <= 255

\* The RFC 1918 ranges 10.0.0.0/8, 172.16.0.0/12, 192.168.0.0/16 by the
\* first two octets
Rfc1918(a, b) == a = 10 \/ (a = 172 /\ 16 <= b /\ b <= 31) \/ (a = 192 /\ b = 168)

\* C10: a record's scope depends only on its ip: for a dotted quad with octets
\* in 0..255 it is "private" exactly in the RFC 1918 ranges and "public"
\* otherwise, and an ip without exactly four dot-separated parts is "public".
C10_ScopeClassified ==
    ipPc = "done" =>
        \A k \in 1..Len(ipHostPairs) :
            LET r == ipHostPairs[k]
                parts == Split(r.ip, ".")
            IN  /\ r.type \in {"private", "public"}
                /\ Len(parts) # 4 => r.type = "public"
                /\ (Len(parts) = 4 /\ \A n \in 1..4 : IsOctet(parts[n]))
                      => (r.type = "private"
                            <=> Rfc1918(DecimalValue(parts[1], 0), DecimalValue(parts[2], 0)))

\* 172.31.0.1, the last /16 of 172.16.0.0/12, is classified private
C10_Witness ==
    /\ ipPc = "done"
    /\ Len(ipHostPairs) = 1
    /\ ipHostPairs[1].ip = DottedQuad(172, 31, 0, 1)
    /\ ipHostPairs[1].type = "private"

=============================================================================
